---------------------------- MODULE Spec2Model ----------------------------
(***************************************************************************)
(* Fund manager (src/app.py): the ledger of per-contributor transactions,  *)
(* the eligibility sums, the proportional fan-out of trades and admin      *)
(* withdrawals, and the withdrawal-request lifecycle.                      *)
(*                                                                         *)
(* Every request handler runs on a worker.  A worker's steps are the       *)
(* handler's database statements: each DatabaseManager method executes     *)
(* and commits on its own, so another worker's statement can fall between  *)
(* any two of them.  Spec, SpecEdits and SpecRequests run one worker       *)
(* (requests one after the other), SpecConc two.                           *)
(*                                                                         *)
(* Money is kept in exact rational arithmetic (<<numerator, denominator>>  *)
(* in lowest terms).  Dates are the strings the forms post and the TEXT    *)
(* column stores; they are validated by strptime and compared by SQLite    *)
(* as text.                                                                *)
(***************************************************************************)
EXTENDS Integers, Sequences, FiniteSets, TLC

(***************************************************************************)
(* Bounds of the model.                                                    *)
(***************************************************************************)
MaxLedger == 4      \* a handler that appends starts only below this many rows
MaxTrades == 1      \* rows of the trades table
MaxRequests == 1    \* rows of the withdrawal_requests table
MaxDays == 1        \* days that pass after the first
MaxEdits == 2       \* edit_trade / edit_transaction posts served

(***************************************************************************)
(* Exact rationals.                                                        *)
(***************************************************************************)
Abs(n) == IF n < 0 THEN -n ELSE n

RECURSIVE GCD(_, _)
GCD(a, b) == IF b = 0 THEN a ELSE GCD(b, a % b)

Rat(n, d) ==
    LET s == IF d < 0 THEN -1 ELSE 1
        g == GCD(Abs(n), Abs(d))
    IN  <<(s * n) \div g, (s * d) \div g>>

R(n) == <<n, 1>>
Zero == <<0, 1>>

\* The least common denominator of x and y.
Lcd(x, y) == (x[2] \div GCD(x[2], y[2])) * y[2]

RAdd(x, y) ==
    LET l == Lcd(x, y)
    IN  Rat(x[1] * (l \div x[2]) + y[1] * (l \div y[2]), l)
RNeg(x) == <<-x[1], x[2]>>
RSub(x, y) == RAdd(x, RNeg(y))
RMul(x, y) ==
    LET a == Rat(x[1], y[2])
        b == Rat(y[1], x[2])
    IN  Rat(a[1] * b[1], a[2] * b[2])
RDiv(x, y) == RMul(x, Rat(y[2], y[1]))
RLe(x, y) == LET l == Lcd(x, y) IN x[1] * (l \div x[2]) <= y[1] * (l \div y[2])
RLt(x, y) == LET l == Lcd(x, y) IN x[1] * (l \div x[2]) < y[1] * (l \div y[2])
RPos(x) == x[1] > 0

(***************************************************************************)
(* Date strings.  Chars gives a string's characters, Code a character's    *)
(* code point (the order SQLite's BINARY collation compares by).           *)
(***************************************************************************)
DateStrings ==
    {"2024-01-05", "2024-1-9", "2024-01-09", "2024-01-10", "2024-01-11",
     "2024-01-12", "2024-13-01", ""}

Chars(s) ==
    CASE s = "2024-01-05" -> <<"2","0","2","4","-","0","1","-","0","5">>
      [] s = "2024-1-9"   -> <<"2","0","2","4","-","1","-","9">>
      [] s = "2024-01-09" -> <<"2","0","2","4","-","0","1","-","0","9">>
      [] s = "2024-01-10" -> <<"2","0","2","4","-","0","1","-","1","0">>
      [] s = "2024-01-11" -> <<"2","0","2","4","-","0","1","-","1","1">>
      [] s = "2024-01-12" -> <<"2","0","2","4","-","0","1","-","1","2">>
      [] s = "2024-13-01" -> <<"2","0","2","4","-","1","3","-","0","1">>
      [] s = ""           -> <<>>

Code(ch) ==
    CASE ch = "-" -> 45
      [] ch = "0" -> 48 [] ch = "1" -> 49 [] ch = "2" -> 50 [] ch = "3" -> 51
      [] ch = "4" -> 52 [] ch = "5" -> 53 [] ch = "6" -> 54 [] ch = "7" -> 55
      [] ch = "8" -> 56 [] ch = "9" -> 57

IsDigit(ch) == ch \in {"0","1","2","3","4","5","6","7","8","9"}
DigitVal(ch) == Code(ch) - 48

RECURSIVE NumVal(_)
NumVal(cs) ==
    IF cs = <<>> THEN 0
    ELSE 10 * NumVal(SubSeq(cs, 1, Len(cs) - 1)) + DigitVal(cs[Len(cs)])

\* Index of the k-th "-" of cs, 0 when there is none.
DashAt(cs, k) ==
    LET ds == {i \in 1..Len(cs) : cs[i] = "-"}
    IN  IF Cardinality(ds) < k THEN 0
        ELSE CHOOSE i \in ds : Cardinality({j \in ds : j < i}) = k - 1

DaysInMonth(y, m) ==
    IF m \in {4, 6, 9, 11} THEN 30
    ELSE IF m = 2
         THEN (IF (y % 4 = 0 /\ y % 100 # 0) \/ y % 400 = 0 THEN 29 ELSE 28)
         ELSE 31

NoDate == <<0, 0, 0>>

\* datetime.strptime(s, "%Y-%m-%d"): four digits, "-", one or two digits of a
\* month 1..12, "-", one or two digits of a day of that month; <<y, m, d>>,
\* or NoDate where strptime raises ValueError.
strptime(s) ==
    LET cs == Chars(s)
        d1 == DashAt(cs, 1)
        d2 == DashAt(cs, 2)
        ys == SubSeq(cs, 1, d1 - 1)
        ms == SubSeq(cs, d1 + 1, d2 - 1)
        dd == SubSeq(cs, d2 + 1, Len(cs))
        digits(q) == \A i \in 1..Len(q) : IsDigit(q[i])
    IN  IF /\ Cardinality({i \in 1..Len(cs) : cs[i] = "-"}) = 2
           /\ Len(ys) = 4 /\ Len(ms) \in {1, 2} /\ Len(dd) \in {1, 2}
           /\ digits(ys) /\ digits(ms) /\ digits(dd)
           /\ NumVal(ms) \in 1..12
           /\ NumVal(dd) \in 1..DaysInMonth(NumVal(ys), NumVal(ms))
        THEN <<NumVal(ys), NumVal(ms), NumVal(dd)>>
        ELSE NoDate

Pad(n, width) ==
    LET ch(k) == CHOOSE c \in {"0","1","2","3","4","5","6","7","8","9"} : DigitVal(c) = k
    IN  [i \in 1..width |-> ch((n \div (10 ^ (width - i))) % 10)]

\* date.strftime('%Y-%m-%d'): zero-padded year, month and day.
strftime(dt) ==
    LET cs == Pad(dt[1], 4) \o <<"-">> \o Pad(dt[2], 2) \o <<"-">> \o Pad(dt[3], 2)
    IN  CHOOSE s \in DateStrings : Chars(s) = cs

RECURSIVE LexLeq(_, _)
LexLeq(a, b) ==
    IF a = <<>> THEN TRUE
    ELSE IF b = <<>> THEN FALSE
    ELSE IF Code(Head(a)) # Code(Head(b)) THEN Code(Head(a)) < Code(Head(b))
    ELSE LexLeq(Tail(a), Tail(b))

\* SQLite's  date <= ?  on TEXT values: the pairs <<a, b>> with a <= b.
TextOrder == {p \in DateStrings \X DateStrings : LexLeq(Chars(p[1]), Chars(p[2]))}
TextLeq(a, b) == <<a, b>> \in TextOrder

\* The calendar order of two valid date strings.
CalendarOrder ==
    {p \in DateStrings \X DateStrings :
        LET x == strptime(p[1])
            y == strptime(p[2])
        IN  /\ x # NoDate /\ y # NoDate
            /\ \/ x[1] < y[1]
               \/ x[1] = y[1] /\ x[2] < y[2]
               \/ x[1] = y[1] /\ x[2] = y[2] /\ x[3] <= y[3]}
CalendarLeq(a, b) == <<a, b>> \in CalendarOrder


(***************************************************************************)
(* Form fields.  A numeric field is the text posted: a number, the empty   *)
(* string, or text float() rejects.                                        *)
(***************************************************************************)
Num(n) == [kind |-> "num", val |-> R(n)]
Blank == [kind |-> "blank", val |-> Zero]
Junk == [kind |-> "junk", val |-> Zero]
None == [kind |-> "none", val |-> Zero]

\* float(s): raises ValueError for the empty string and for non-numeric text.
FloatOk(f) == f.kind = "num"

Workers == {1, 2}

\* Contributor names in the order of  ORDER BY name.
Names == <<"A", "B">>
NameRank(n) == CHOOSE i \in 1..Len(Names) : Names[i] = n

ContributorForms ==
    {[name |-> "A", login_username |-> "a", login_password |-> "pw",
      deposit |-> Num(6), deposit_date |-> "2024-01-09"],
     [name |-> "B", login_username |-> "b", login_password |-> "pw",
      deposit |-> Num(4), deposit_date |-> "2024-01-10"],
     [name |-> "B", login_username |-> "a", login_password |-> "pw",
      deposit |-> Num(4), deposit_date |-> "2024-1-9"],
     [name |-> "", login_username |-> "b", login_password |-> "pw",
      deposit |-> Num(4), deposit_date |-> "2024-01-09"]}

FundsForms ==
    {[contributor |-> "B", deposit |-> Num(2), deposit_date |-> "2024-01-10"],
     [contributor |-> "B", deposit |-> Junk, deposit_date |-> "2024-01-10"]}

TradeForm(d, a, p, c, s, q, e, x) ==
    [trade_date |-> d, asset |-> a, pnl |-> p, charges |-> c, side |-> s,
     quantity |-> q, entry_price |-> e, exit_price |-> x]

TradeForms ==
    {TradeForm("2024-01-10", "NIFTY", Num(11), Num(1), "", Blank, Blank, Blank),
     TradeForm("2024-01-10", "NIFTY", Num(-2), Num(0), "", Blank, Blank, Blank),
     TradeForm("2024-01-05", "NIFTY", Num(11), Num(1), "", Blank, Blank, Blank),
     TradeForm("2024-01-10", "NIFTY", Blank, Num(1), "long", Num(2), Num(3), Num(5)),
     TradeForm("2024-01-10", "NIFTY", Blank, Num(1), "short", Num(2), Num(3), Num(5)),
     TradeForm("2024-01-10", "", Num(11), Num(1), "", Blank, Blank, Blank),
     TradeForm("2024-01-10", "NIFTY", Blank, Num(1), "buy", Num(2), Num(3), Num(5))}

WithdrawForms ==
    {[withdraw_date |-> "2024-01-10", amount |-> Num(3)],
     [withdraw_date |-> "2024-01-05", amount |-> Num(3)],
     [withdraw_date |-> "2024-01-10", amount |-> Num(7)],
     [withdraw_date |-> "2024-01-10", amount |-> Num(0)]}

RequestForms ==
    {[request_date |-> "2024-01-09", amount |-> Num(2)],
     [request_date |-> "2024-01-10", amount |-> Num(-2)]}

\* A request for more than the requester holds.
OverdrawRequestForms ==
    {[request_date |-> "2024-01-10", amount |-> Num(5)]}

\* Forms the handlers reject: a date strptime refuses, an amount that is no
\* number or not above 0, a required field left empty, and for record_trade
\* non-numeric figures, no pnl with execution fields missing, and a side that
\* is neither long nor short.
RejectedContributorForms ==
    {[name |-> "A", login_username |-> "a", login_password |-> "pw",
      deposit |-> Num(6), deposit_date |-> "2024-13-01"],
     [name |-> "A", login_username |-> "a", login_password |-> "pw",
      deposit |-> Num(0), deposit_date |-> "2024-01-09"],
     [name |-> "B", login_username |-> "b", login_password |-> "pw",
      deposit |-> Junk, deposit_date |-> "2024-01-10"],
     [name |-> "B", login_username |-> "", login_password |-> "pw",
      deposit |-> Num(4), deposit_date |-> "2024-01-10"]}

RejectedFundsForms ==
    {[contributor |-> "", deposit |-> Num(2), deposit_date |-> "2024-01-10"],
     [contributor |-> "B", deposit |-> Num(2), deposit_date |-> ""],
     [contributor |-> "B", deposit |-> Num(-2), deposit_date |-> "2024-01-10"]}

RejectedTradeForms ==
    {TradeForm("2024-13-01", "NIFTY", Num(11), Num(1), "", Blank, Blank, Blank),
     TradeForm("2024-01-10", "NIFTY", Junk, Num(1), "", Blank, Blank, Blank),
     TradeForm("2024-01-10", "NIFTY", Num(11), Junk, "", Blank, Blank, Blank),
     TradeForm("2024-01-10", "NIFTY", Num(11), Blank, "", Blank, Blank, Blank),
     TradeForm("2024-01-10", "NIFTY", Num(11), Num(1), "long", Junk, Num(3), Num(5)),
     TradeForm("2024-01-10", "NIFTY", Num(11), Num(1), "long", Num(2), Junk, Num(5)),
     TradeForm("2024-01-10", "NIFTY", Num(11), Num(1), "long", Num(2), Num(3), Junk),
     TradeForm("2024-01-10", "NIFTY", Blank, Num(1), "long", Num(2), Blank, Num(5)),
     TradeForm("2024-01-10", "NIFTY", Blank, Num(1), "", Blank, Blank, Blank)}

\* Forms that give the pnl and execution fields as well: all of them with a
\* side, all of them with a side that is neither long nor short, some of them.
SuppliedPnlTradeForms ==
    {TradeForm("2024-01-10", "NIFTY", Num(11), Num(1), "long", Num(2), Num(3), Num(5)),
     TradeForm("2024-01-10", "NIFTY", Num(11), Num(1), "buy", Num(2), Num(3), Num(5)),
     TradeForm("2024-01-10", "NIFTY", Num(-2), Num(0), "short", Num(2), Blank, Blank)}

RejectedWithdrawForms ==
    {[withdraw_date |-> "", amount |-> Num(3)],
     [withdraw_date |-> "2024-01-10", amount |-> Junk],
     [withdraw_date |-> "2024-01-10", amount |-> Num(-3)]}

RejectedRequestForms ==
    {[request_date |-> "2024-13-01", amount |-> Num(2)],
     [request_date |-> "2024-01-09", amount |-> Num(0)],
     [request_date |-> "2024-01-09", amount |-> Blank]}

AdminComments == {"", "ok"}

EditTradeForms ==
    {[trade_date |-> "2024-01-10", asset |-> "NIFTY", pnl |-> Num(5), charges |-> Num(1)],
     [trade_date |-> "2024-01-11", asset |-> "", pnl |-> Num(-3), charges |-> Num(1)],
     [trade_date |-> "", asset |-> "NIFTY", pnl |-> Num(5), charges |-> Num(1)]}

EditTransactionForms ==
    {[date |-> "2024-01-10", type |-> "trade", amount |-> Num(1),
      allocated_charges |-> Num(0), asset |-> "NIFTY"],
     [date |-> "2024-01-09", type |-> "withdrawal", amount |-> Num(-5),
      allocated_charges |-> Num(0), asset |-> ""],
     [date |-> "2024-01-10", type |-> "bonus", amount |-> Num(1),
      allocated_charges |-> Num(0), asset |-> ""]}

(***************************************************************************)
(* State.                                                                  *)
(***************************************************************************)
VARIABLES
    users,                \* rows of the users table: [id, username, role]
    contributors,         \* rows of contributors: [id, name, login_username]
    transactions,         \* rows of transactions (the ledger)
    trades,               \* rows of trades
    withdrawal_requests,  \* rows of withdrawal_requests
    seq,                  \* the last AUTOINCREMENT id issued per table
    today,                \* the day date.today() returned last, <<year, month, day>>
    edits,                \* edit posts served so far
    fanout,               \* history: trade id -> ids of the ledger rows its fan-out appended
    req                   \* per worker: the request it is serving or has last served

db == <<users, contributors, transactions, trades, withdrawal_requests, seq>>
vars == <<users, contributors, transactions, trades, withdrawal_requests, seq,
          today, edits, fanout, req>>

Snapshot ==
    [users |-> users, contributors |-> contributors, transactions |-> transactions,
     trades |-> trades, withdrawal_requests |-> withdrawal_requests]

NoSnapshot ==
    [users |-> {}, contributors |-> {}, transactions |-> {}, trades |-> {},
     withdrawal_requests |-> {}]

\* A worker between requests.  The fields are a handler's form, its local
\* variables, its position (pc) and, when it is about to return its response
\* (pc = "done"), how it ended (outcome); pre is the database the request
\* started from.
Idle ==
    [op |-> "idle", pc |-> "idle", outcome |-> "", form |-> [none |-> TRUE],
     target |-> 0, admin_comment |-> "", date |-> "",
     trade_id |-> 0, charges |-> Zero, net_profit_after_commission |-> Zero,
     amount |-> Zero, total |-> Zero, cids |-> <<>>, eligible |-> <<>>,
     idx |-> 0, written |-> {}, pre |-> NoSnapshot]

Free(w) == req[w].pc = "idle"

\* A request of handler op starting on worker w.
Begin(op) == [Idle EXCEPT !.op = op, !.pre = Snapshot]

Done(r, outcome) == [r EXCEPT !.pc = "done", !.outcome = outcome]

\* Worker w has run handler op to its end and is about to respond.
Served(w, op) == req[w].op = op /\ req[w].pc = "done"

(***************************************************************************)
(* DatabaseManager.                                                        *)
(***************************************************************************)
RECURSIVE SumAmount(_)
SumAmount(rows) ==
    IF rows = {} THEN Zero
    ELSE LET t == CHOOSE x \in rows : TRUE
         IN  RAdd(t.amount, SumAmount(rows \ {t}))

RECURSIVE SumCharges(_)
SumCharges(rows) ==
    IF rows = {} THEN Zero
    ELSE LET t == CHOOSE x \in rows : TRUE
         IN  RAdd(t.allocated_charges, SumCharges(rows \ {t}))

\* SELECT SUM(amount) FROM transactions WHERE contributor_id=? AND date<=?
\* over the rows txns; no matching row gives NULL, returned as 0.0.
EligibleIn(txns, contributor_id, as_of_date) ==
    SumAmount({t \in txns : t.contributor_id = contributor_id
                            /\ TextLeq(t.date, as_of_date)})

\* SELECT SUM(amount) FROM transactions WHERE date<=?  over the rows txns.
TotalIn(txns, as_of_date) ==
    SumAmount({t \in txns : TextLeq(t.date, as_of_date)})

\* get_eligible_balance whose query has lost its  AND date<=?.
EligibleUndated(contributor_id, as_of_date) ==
    SumAmount({t \in transactions : t.contributor_id = contributor_id})

get_eligible_balance(contributor_id, as_of_date) ==
    EligibleIn(transactions, contributor_id, as_of_date)

\* get_total_fund whose query has lost its  WHERE date<=?.
TotalFundUndated(as_of_date) == SumAmount(transactions)

get_total_fund(as_of_date) == TotalIn(transactions, as_of_date)

\* total_eligible += eligible  over the contributors ids: the sum of their
\* eligible balances as of as_of_date.
RECURSIVE SumEligible(_, _)
SumEligible(ids, as_of_date) ==
    IF ids = {} THEN Zero
    ELSE LET c == CHOOSE x \in ids : TRUE
         IN  RAdd(get_eligible_balance(c, as_of_date),
                  SumEligible(ids \ {c}, as_of_date))

\* The query with  LIMIT 1: the first contributor by name only.
FirstContributorOnly ==
    IF contributors = {} THEN <<>>
    ELSE <<(CHOOSE c \in contributors :
               \A x \in contributors : NameRank(c.name) <= NameRank(x.name)).id>>

\* SELECT * FROM contributors ORDER BY name, as the sequence of the rows' ids.
get_all_contributors ==
    LET before(c) == {x \in contributors : NameRank(x.name) < NameRank(c.name)}
    IN  [i \in 1..Cardinality(contributors) |->
            (CHOOSE c \in contributors : Cardinality(before(c)) = i - 1).id]

\* SELECT * FROM contributors WHERE login_username=? ; fetchone(): the rows
\* with that login, of which the handler takes the first (lowest rowid).
get_contributor_by_login(login_username) ==
    LET found == {c \in contributors : c.login_username = login_username}
    IN  {c \in found : \A x \in found : c.id <= x.id}

\* SELECT COUNT(*) AS cnt FROM users WHERE role='admin'
count_admins == Cardinality({u \in users : u.role = "admin"})

\* DELETE FROM users WHERE id=?
delete_user(user_id) == users' = {u \in users : u.id # user_id}

\* PRAGMA foreign_keys = ON: a transactions or withdrawal_requests row must
\* reference a row of contributors.
ForeignKeyOk(contributor_id) == \E c \in contributors : c.id = contributor_id

NewTransaction(contributor_id, date_str, txn_type, amount, asset, allocated_charges) ==
    [id |-> seq.transactions + 1, contributor_id |-> contributor_id,
     date |-> date_str, type |-> txn_type, amount |-> amount, asset |-> asset,
     allocated_charges |-> allocated_charges]

\* An INSERT that replaces the contributor's earlier rows.
AddTransactionReplacing(contributor_id, date_str, txn_type, amount, asset, allocated_charges) ==
    /\ transactions' =
          {t \in transactions : t.contributor_id # contributor_id} \cup
          {NewTransaction(contributor_id, date_str, txn_type, amount, asset,
                          allocated_charges)}
    /\ seq' = [seq EXCEPT !.transactions = @ + 1]

\* INSERT INTO transactions ...; commit.
add_transaction(contributor_id, date_str, txn_type, amount, asset, allocated_charges) ==
    /\ transactions' = transactions \cup
          {NewTransaction(contributor_id, date_str, txn_type, amount, asset,
                          allocated_charges)}
    /\ seq' = [seq EXCEPT !.transactions = @ + 1]

\* The update that puts a rejected request back among the pending ones.
UpdateWithdrawalRequestReopening(request_id, status, approved_date, admin_comment) ==
    withdrawal_requests' =
        {IF r.id = request_id
         THEN [r EXCEPT !.status = IF status = "rejected" THEN "pending" ELSE status,
                        !.approved_date = approved_date,
                        !.admin_comment = admin_comment]
         ELSE r : r \in withdrawal_requests}

\* UPDATE withdrawal_requests SET status=?, approved_date=?, admin_comment=?
\* WHERE id=?
update_withdrawal_request(request_id, status, approved_date, admin_comment) ==
    withdrawal_requests' =
        {IF r.id = request_id
         THEN [r EXCEPT !.status = status, !.approved_date = approved_date,
                        !.admin_comment = admin_comment]
         ELSE r : r \in withdrawal_requests}

\* The purge without its  DELETE FROM transactions.
DeleteContributorKeepLedger(contributor_id) ==
    /\ transactions' = transactions
    /\ withdrawal_requests' =
          {r \in withdrawal_requests : r.contributor_id # contributor_id}
    /\ contributors' = {c \in contributors : c.id # contributor_id}

\* delete_contributor without its  DELETE FROM withdrawal_requests.
DeleteContributorKeepRequests(contributor_id) ==
    /\ transactions' = {t \in transactions : t.contributor_id # contributor_id}
    /\ withdrawal_requests' = withdrawal_requests
    /\ contributors' = {c \in contributors : c.id # contributor_id}

\* DELETE FROM transactions / withdrawal_requests / contributors WHERE ...=?
\* in one transaction.
delete_contributor(contributor_id) ==
    /\ transactions' = {t \in transactions : t.contributor_id # contributor_id}
    /\ withdrawal_requests' =
          {r \in withdrawal_requests : r.contributor_id # contributor_id}
    /\ contributors' = {c \in contributors : c.id # contributor_id}

\* The row add_contributor's deposit leaves in transactions.
NewDeposit(id, contributor_id, date_str, amount) ==
    [id |-> id, contributor_id |-> contributor_id, date |-> date_str,
     type |-> "deposit", amount |-> amount, asset |-> "", allocated_charges |-> Zero]

(***************************************************************************)
(* Initial state: create_tables on an empty database.                      *)
(***************************************************************************)
StartDay == <<2024, 1, 10>>

Init ==
    /\ users = {[id |-> 1, username |-> "admin1", role |-> "admin"],
                [id |-> 2, username |-> "admin2", role |-> "admin"]}
    /\ contributors = {}
    /\ transactions = {}
    /\ trades = {}
    /\ withdrawal_requests = {}
    /\ seq = [users |-> 2, contributors |-> 0, transactions |-> 0, trades |-> 0,
              withdrawal_requests |-> 0]
    /\ today = StartDay
    /\ edits = 0
    /\ fanout = <<>>
    /\ req = [w \in Workers |-> Idle]

\* The days date.today() may return: the day it returned last, or a later one.
Days == {<<today[1], today[2], d>> : d \in today[3]..(StartDay[3] + MaxDays)}

(***************************************************************************)
(* add_contributor (POST).                                                 *)
(***************************************************************************)
ContributorFormValid(f) ==
    /\ f.name # "" /\ f.login_username # "" /\ f.login_password # ""
    /\ strptime(f.deposit_date) # NoDate
    /\ FloatOk(f.deposit) /\ RPos(f.deposit.val)

\* Validation, then db.add_contributor: the INSERT fails on a used name
\* (name TEXT UNIQUE) and the handler flashes the exception.
AddContributorStart(w, f) ==
    /\ Free(w)
    /\ seq.transactions < MaxLedger
    /\ LET r == [Begin("add_contributor") EXCEPT !.form = f]
       IN  IF ~ContributorFormValid(f)
           THEN /\ req' = [req EXCEPT ![w] = Done(r, "invalid")]
                /\ UNCHANGED <<db, today, edits, fanout>>
           ELSE IF \E c \in contributors : c.name = f.name
           THEN /\ req' = [req EXCEPT ![w] = Done(r, "conflict")]
                /\ UNCHANGED <<db, today, edits, fanout>>
           ELSE /\ contributors' = contributors \cup
                      {[id |-> seq.contributors + 1, name |-> f.name,
                        login_username |-> f.login_username]}
                /\ seq' = [seq EXCEPT !.contributors = @ + 1]
                /\ req' = [req EXCEPT ![w] =
                              [r EXCEPT !.pc = "deposit",
                                        !.target = seq.contributors + 1]]
                /\ UNCHANGED <<users, transactions, trades, withdrawal_requests,
                               today, edits, fanout>>

\* db.add_transaction(contributor_id, deposit_date, "deposit", deposit, ...)
AddContributorDeposit(w) ==
    /\ req[w].op = "add_contributor" /\ req[w].pc = "deposit"
    /\ IF ForeignKeyOk(req[w].target)
       THEN /\ add_transaction(req[w].target, req[w].form.deposit_date, "deposit",
                               req[w].form.deposit.val, "", Zero)
            /\ req' = [req EXCEPT ![w] = [@ EXCEPT !.pc = "user"]]
       ELSE /\ req' = [req EXCEPT ![w] = Done(@, "error")]
            /\ UNCHANGED <<transactions, seq>>
    /\ UNCHANGED <<users, contributors, trades, withdrawal_requests, today, edits,
                   fanout>>

\* db.add_user(login_username, login_password, role="user"): the INSERT fails
\* on a used username (username TEXT UNIQUE) and the handler flashes it.
AddContributorUser(w) ==
    /\ req[w].op = "add_contributor" /\ req[w].pc = "user"
    /\ IF \E u \in users : u.username = req[w].form.login_username
       THEN /\ req' = [req EXCEPT ![w] = Done(@, "conflict")]
            /\ UNCHANGED <<users, seq>>
       ELSE /\ users' = users \cup
                  {[id |-> seq.users + 1, username |-> req[w].form.login_username,
                    role |-> "user"]}
            /\ seq' = [seq EXCEPT !.users = @ + 1]
            /\ req' = [req EXCEPT ![w] = Done(@, "ok")]
    /\ UNCHANGED <<contributors, transactions, trades, withdrawal_requests, today,
                   edits, fanout>>

(***************************************************************************)
(* add_funds (POST).                                                       *)
(***************************************************************************)
\* The validation without its try: float(deposit_str) ... except ValueError.
FundsFormValidAnyDeposit(f) ==
    /\ f.contributor # ""
    /\ strptime(f.deposit_date) # NoDate

FundsFormValid(f) ==
    /\ f.contributor # ""
    /\ strptime(f.deposit_date) # NoDate
    /\ FloatOk(f.deposit) /\ RPos(f.deposit.val)

add_funds(w, f) ==
    /\ Free(w)
    /\ seq.transactions < MaxLedger
    /\ LET r == [Begin("add_funds") EXCEPT !.form = f]
           found == {c \in contributors : c.name = f.contributor}
       IN  IF ~FundsFormValid(f)
           THEN /\ req' = [req EXCEPT ![w] = Done(r, "invalid")]
                /\ UNCHANGED <<transactions, seq>>
           ELSE IF found = {}
           THEN /\ req' = [req EXCEPT ![w] = Done(r, "not_found")]
                /\ UNCHANGED <<transactions, seq>>
           ELSE /\ add_transaction((CHOOSE c \in found : TRUE).id, f.deposit_date,
                                   "deposit", f.deposit.val, "", Zero)
                /\ req' = [req EXCEPT ![w] =
                              Done([r EXCEPT !.written = {seq.transactions + 1}], "ok")]
    /\ UNCHANGED <<users, contributors, trades, withdrawal_requests, today, edits,
                   fanout>>

(***************************************************************************)
(* record_trade (POST).                                                    *)
(***************************************************************************)
Given(x) == x.kind = "num"

TradeFormValid(f) ==
    /\ f.asset # ""
    /\ strptime(f.trade_date) # NoDate
    /\ f.pnl.kind # "junk"
    /\ FloatOk(f.charges)
    /\ f.quantity.kind # "junk" /\ f.entry_price.kind # "junk"
    /\ f.exit_price.kind # "junk"
    /\ \/ Given(f.pnl)
       \/ /\ Given(f.quantity) /\ Given(f.entry_price) /\ Given(f.exit_price)
          /\ f.side \in {"long", "short"}

\* The pnl computed as for a long position whatever the side.
TradePnlLong(f) ==
    IF Given(f.pnl) THEN f.pnl.val
    ELSE RMul(RSub(f.exit_price.val, f.entry_price.val), f.quantity.val)

\* The pnl the form gives, or the one computed from side, quantity, entry
\* and exit price.
TradePnl(f) ==
    IF Given(f.pnl) THEN f.pnl.val
    ELSE IF f.side = "long"
         THEN RMul(RSub(f.exit_price.val, f.entry_price.val), f.quantity.val)
         ELSE RMul(RSub(f.entry_price.val, f.exit_price.val), f.quantity.val)

CommissionRate == Rat(3, 10)

\* net_pnl, commission and net_profit_after_commission of a trade.
TradeFigures(pnl, charges) ==
    LET net_pnl == RSub(pnl, charges)
        commission == IF RPos(net_pnl) THEN RMul(CommissionRate, net_pnl) ELSE Zero
    IN  [net_pnl |-> net_pnl, commission |-> commission,
         net_profit_after_commission |-> RSub(net_pnl, commission)]

Opt(x) == IF Given(x) THEN x ELSE None

\* The row db.add_trade inserts and db.update_trade_details completes.
NewTrade(tid, f) ==
    LET pnl == TradePnl(f)
        fig == TradeFigures(pnl, f.charges.val)
    IN  [id |-> tid, trade_date |-> f.trade_date, asset |-> f.asset,
         pnl |-> pnl, charges |-> f.charges.val,
         commission |-> fig.commission, net_pnl |-> fig.net_pnl,
         net_profit_after_commission |-> fig.net_profit_after_commission,
         quantity |-> Opt(f.quantity),
         entry_price |-> Opt(f.entry_price),
         exit_price |-> Opt(f.exit_price), side |-> f.side]

\* The handler's locals once the trade tid is stored: trade_date, charges and
\* net_profit_after_commission; next it reads the contributors.
Allocating(r, tid, f) ==
    [r EXCEPT !.pc = "contributors", !.trade_id = tid,
              !.date = f.trade_date,
              !.charges = f.charges.val,
              !.net_profit_after_commission =
                  TradeFigures(TradePnl(f), f.charges.val).net_profit_after_commission]

\* Validation, then db.add_trade and db.update_trade_details.
RecordTradeStart(w, f) ==
    /\ Free(w)
    /\ seq.transactions < MaxLedger /\ seq.trades < MaxTrades
    /\ LET r == [Begin("record_trade") EXCEPT !.form = f]
           tid == seq.trades + 1
       IN  IF ~TradeFormValid(f)
           THEN /\ req' = [req EXCEPT ![w] = Done(r, "invalid")]
                /\ UNCHANGED <<trades, seq, fanout>>
           ELSE /\ trades' = trades \cup {NewTrade(tid, f)}
                /\ seq' = [seq EXCEPT !.trades = tid]
                /\ fanout' = [t \in DOMAIN fanout \cup {tid} |->
                                 IF t = tid THEN {} ELSE fanout[t]]
                /\ req' = [req EXCEPT ![w] = Allocating(r, tid, f)]
    /\ UNCHANGED <<users, contributors, transactions, withdrawal_requests, today,
                   edits>>

\* contributors = db.get_all_contributors(); with no contributor the loop
\* is empty and total_eligible stays 0.0.
RecordTradeContributors(w) ==
    /\ req[w].op = "record_trade" /\ req[w].pc = "contributors"
    /\ req' = [req EXCEPT ![w] =
                  IF get_all_contributors = <<>>
                  THEN Done(@, "no_funds")
                  ELSE [@ EXCEPT !.pc = "balances", !.cids = get_all_contributors,
                                 !.idx = 1]]
    /\ UNCHANGED <<db, today, edits, fanout>>

\* The guard written  == 0  in place of  <= 0.
NoFundsAtZero(total) == total = Zero

\* The guards  total_eligible <= 0  and  total_fund <= 0.
NoFunds(total) == RLe(total, Zero)

\* The share taken from the magnitude of the balance, abs(eligible).
ShareOfMagnitude(eligible, total, amount) ==
    RMul(RDiv(<<Abs(eligible[1]), eligible[2]>>, total), amount)

\* The share of an amount that grows with the id of the row written: a
\* result that depends on when the entry is written.
ShareByRowId(eligible, total, amount) ==
    RMul(RDiv(eligible, total), RAdd(amount, R(seq.transactions)))

\* An even split of the amount between two contributors, whatever they hold.
ShareEven(eligible, total, amount) == RDiv(amount, R(2))

\* The share with Python's floor division  //  in place of  /.
ShareFloorDiv(eligible, total, amount) ==
    LET q == RDiv(eligible, total)
    IN  RMul(R(q[1] \div q[2]), amount)

\* (eligible / total) * amount: one contributor's share of amount.
Share(eligible, total, amount) == RMul(RDiv(eligible, total), amount)

\* One pass of the first loop: eligible_dict[cid] = get_eligible_balance(cid,
\* trade_date); total_eligible += eligible.  After the last pass the guard
\* total_eligible <= 0 decides.
RecordTradeBalance(w) ==
    /\ req[w].op = "record_trade" /\ req[w].pc = "balances"
    /\ LET r == req[w]
           eligible == get_eligible_balance(r.cids[r.idx], r.date)
           total == RAdd(r.total, eligible)
           read == [r EXCEPT !.eligible = Append(@, eligible), !.total = total]
       IN  req' = [req EXCEPT ![w] =
                      IF r.idx < Len(r.cids) THEN [read EXCEPT !.idx = @ + 1]
                      ELSE IF NoFunds(total) THEN Done(read, "no_funds")
                      ELSE [read EXCEPT !.pc = "append", !.idx = 1]]
    /\ UNCHANGED <<db, today, edits, fanout>>


\* One pass of the second loop: db.add_transaction(cid, trade_date, "trade",
\* share, asset, allocated_charges, comment).  The INSERT raises
\* IntegrityError when the contributor is gone.
RecordTradeAppend(w) ==
    /\ req[w].op = "record_trade" /\ req[w].pc = "append"
    /\ LET r == req[w]
           cid == r.cids[r.idx]
           share == Share(r.eligible[r.idx], r.total, r.net_profit_after_commission)
           allocated_charges == Share(r.eligible[r.idx], r.total, r.charges)
           id == seq.transactions + 1
           wrote == [r EXCEPT !.written = @ \cup {id}]
       IN  IF ForeignKeyOk(cid)
           THEN /\ add_transaction(cid, r.date, "trade", share, r.form.asset,
                                   allocated_charges)
                /\ fanout' = [fanout EXCEPT ![r.trade_id] = @ \cup {id}]
                /\ req' = [req EXCEPT ![w] =
                              IF r.idx < Len(r.cids) THEN [wrote EXCEPT !.idx = @ + 1]
                              ELSE Done(wrote, "ok")]
           ELSE /\ req' = [req EXCEPT ![w] = Done(r, "error")]
                /\ UNCHANGED <<transactions, seq, fanout>>
    /\ UNCHANGED <<users, contributors, trades, withdrawal_requests, today, edits>>

(***************************************************************************)
(* withdraw_money (POST).                                                  *)
(***************************************************************************)
\* The validation without its  if withdraw_amt <= 0: raise ValueError.
AmountFormValidSigned(date_str, amount) ==
    /\ strptime(date_str) # NoDate
    /\ FloatOk(amount)

\* The validation with the amount bounded by the fund as of the date.
AmountFormValidWithinFund(date_str, amount) ==
    /\ strptime(date_str) # NoDate
    /\ FloatOk(amount) /\ RPos(amount.val)
    /\ RLe(amount.val, get_total_fund(date_str))

AmountFormValid(date_str, amount) ==
    /\ strptime(date_str) # NoDate
    /\ FloatOk(amount) /\ RPos(amount.val)

\* Validation, then total_fund = db.get_total_fund(withdraw_date) and its guard.
WithdrawStart(w, f) ==
    /\ Free(w)
    /\ seq.transactions < MaxLedger
    /\ LET r == [Begin("withdraw_money") EXCEPT !.form = f]
           total_fund == get_total_fund(f.withdraw_date)
       IN  req' = [req EXCEPT ![w] =
                      IF ~AmountFormValid(f.withdraw_date, f.amount)
                      THEN Done(r, "invalid")
                      ELSE IF NoFunds(total_fund) THEN Done(r, "no_funds")
                      ELSE [r EXCEPT !.pc = "contributors", !.date = f.withdraw_date,
                                     !.amount = f.amount.val, !.total = total_fund]]
    /\ UNCHANGED <<db, today, edits, fanout>>

\* contributors = db.get_all_contributors()
WithdrawContributors(w) ==
    /\ req[w].op = "withdraw_money" /\ req[w].pc = "contributors"
    /\ req' = [req EXCEPT ![w] =
                  IF get_all_contributors = <<>>
                  THEN Done(@, "ok")
                  ELSE [@ EXCEPT !.pc = "balance", !.cids = get_all_contributors,
                                 !.idx = 1]]
    /\ UNCHANGED <<db, today, edits, fanout>>

\* eligible = db.get_eligible_balance(cid, withdraw_date)
WithdrawBalance(w) ==
    /\ req[w].op = "withdraw_money" /\ req[w].pc = "balance"
    /\ LET r == req[w]
           eligible == get_eligible_balance(r.cids[r.idx], r.date)
       IN  req' = [req EXCEPT ![w] =
                      [r EXCEPT !.eligible = Append(@, eligible), !.pc = "append"]]
    /\ UNCHANGED <<db, today, edits, fanout>>

\* db.add_transaction(cid, withdraw_date, "withdrawal", -share, "", 0.0, comment)
WithdrawAppend(w) ==
    /\ req[w].op = "withdraw_money" /\ req[w].pc = "append"
    /\ LET r == req[w]
           cid == r.cids[r.idx]
           share == Share(r.eligible[r.idx], r.total, r.amount)
           wrote == [r EXCEPT !.written = @ \cup {seq.transactions + 1}]
       IN  IF ForeignKeyOk(cid)
           THEN /\ add_transaction(cid, r.date, "withdrawal", RNeg(share), "", Zero)
                /\ req' = [req EXCEPT ![w] =
                              IF r.idx < Len(r.cids)
                              THEN [wrote EXCEPT !.idx = @ + 1, !.pc = "balance"]
                              ELSE Done(wrote, "ok")]
           ELSE /\ req' = [req EXCEPT ![w] = Done(r, "error")]
                /\ UNCHANGED <<transactions, seq>>
    /\ UNCHANGED <<users, contributors, trades, withdrawal_requests, today, edits,
                   fanout>>

(***************************************************************************)
(* request_withdrawal (POST), by a logged-in user who is no admin.         *)
(***************************************************************************)
request_withdrawal(w, username, f) ==
    /\ Free(w)
    /\ seq.withdrawal_requests < MaxRequests
    /\ \E u \in users : u.username = username /\ u.role # "admin"
    /\ LET r == [Begin("request_withdrawal") EXCEPT !.form = f]
           contrib == get_contributor_by_login(username)
           id == seq.withdrawal_requests + 1
       IN  IF ~AmountFormValid(f.request_date, f.amount)
           THEN /\ req' = [req EXCEPT ![w] = Done(r, "invalid")]
                /\ UNCHANGED <<withdrawal_requests, seq>>
           ELSE IF contrib = {}
           THEN /\ req' = [req EXCEPT ![w] = Done(r, "error")]
                /\ UNCHANGED <<withdrawal_requests, seq>>
           ELSE /\ withdrawal_requests' = withdrawal_requests \cup
                      {[id |-> id,
                        contributor_id |-> (CHOOSE c \in contrib : TRUE).id,
                        request_date |-> f.request_date, amount |-> f.amount.val,
                        status |-> "pending", approved_date |-> "",
                        admin_comment |-> ""]}
                /\ seq' = [seq EXCEPT !.withdrawal_requests = id]
                /\ req' = [req EXCEPT ![w] = Done([r EXCEPT !.target = id], "ok")]
    /\ UNCHANGED <<users, contributors, transactions, trades, today, edits, fanout>>

(***************************************************************************)
(* approve_withdrawal and reject_withdrawal (POST).                        *)
(***************************************************************************)
\* The request ids a URL may name: those in the table and one that is not.
RequestIds == {r.id : r \in withdrawal_requests} \cup {seq.withdrawal_requests + 1}

\* approved_date = date.today(); db.update_withdrawal_request(req_id,
\* "approved", approved_date, admin_comment)
ApproveStart(w, req_id, admin_comment, day) ==
    /\ Free(w)
    /\ seq.transactions < MaxLedger
    /\ today' = day
    /\ update_withdrawal_request(req_id, "approved", strftime(day), admin_comment)
    /\ req' = [req EXCEPT ![w] =
                  [Begin("approve_withdrawal") EXCEPT
                      !.pc = "lookup", !.target = req_id,
                      !.admin_comment = admin_comment, !.date = strftime(day)]]
    /\ UNCHANGED <<users, contributors, transactions, trades, seq, edits, fanout>>

\* The lookup of an approval that is guarded by the request's status: it finds
\* the request only when it was pending as the approval started.
ApproveLookupPending(w) ==
    /\ req[w].op = "approve_withdrawal" /\ req[w].pc = "lookup"
    /\ LET found == {r \in withdrawal_requests :
                        /\ r.id = req[w].target
                        /\ \E q \in req[w].pre.withdrawal_requests :
                              q.id = r.id /\ q.status = "pending"}
       IN  req' = [req EXCEPT ![w] =
                      IF found = {} THEN Done(@, "not_found")
                      ELSE LET r == CHOOSE x \in found : TRUE
                           IN  [@ EXCEPT !.pc = "append", !.amount = r.amount,
                                         !.cids = <<r.contributor_id>>]]
    /\ UNCHANGED <<db, today, edits, fanout>>

\* The loop over db.get_withdrawal_requests() that looks for req_id.
ApproveLookup(w) ==
    /\ req[w].op = "approve_withdrawal" /\ req[w].pc = "lookup"
    /\ LET found == {r \in withdrawal_requests : r.id = req[w].target}
       IN  req' = [req EXCEPT ![w] =
                      IF found = {} THEN Done(@, "not_found")
                      ELSE LET r == CHOOSE x \in found : TRUE
                           IN  [@ EXCEPT !.pc = "append", !.amount = r.amount,
                                         !.cids = <<r.contributor_id>>]]
    /\ UNCHANGED <<db, today, edits, fanout>>

\* The amount of the request, its sign not flipped.
ApprovedAmountUnsigned(amount) == amount

\* -req["amount"]: the amount of the ledger row of an approved request.
ApprovedAmount(amount) == RNeg(amount)

\* db.add_transaction(req["contributor_id"], approved_date, "withdrawal",
\* -req["amount"], "", 0.0, "Withdrawal Approved")
ApproveAppend(w) ==
    /\ req[w].op = "approve_withdrawal" /\ req[w].pc = "append"
    /\ LET r == req[w]
       IN  IF ForeignKeyOk(r.cids[1])
           THEN /\ add_transaction(r.cids[1], r.date, "withdrawal",
                                   ApprovedAmount(r.amount), "", Zero)
                /\ req' = [req EXCEPT ![w] =
                              Done([r EXCEPT !.written = {seq.transactions + 1}], "ok")]
           ELSE /\ req' = [req EXCEPT ![w] = Done(r, "error")]
                /\ UNCHANGED <<transactions, seq>>
    /\ UNCHANGED <<users, contributors, trades, withdrawal_requests, today, edits,
                   fanout>>

\* approved_date = date.today(); db.update_withdrawal_request(req_id,
\* "rejected", approved_date, admin_comment)
reject_withdrawal(w, req_id, admin_comment, day) ==
    /\ Free(w)
    /\ today' = day
    /\ update_withdrawal_request(req_id, "rejected", strftime(day), admin_comment)
    /\ req' = [req EXCEPT ![w] =
                  Done([Begin("reject_withdrawal") EXCEPT
                           !.target = req_id, !.admin_comment = admin_comment,
                           !.date = strftime(day)], "ok")]
    /\ UNCHANGED <<users, contributors, transactions, trades, seq, edits, fanout>>

(***************************************************************************)
(* delete_contributor_route (POST).                                        *)
(***************************************************************************)
ContributorIds == {c.id : c \in contributors} \cup {seq.contributors + 1}

delete_contributor_route(w, contrib_id) ==
    /\ Free(w)
    /\ LET r == [Begin("delete_contributor") EXCEPT !.target = contrib_id]
       IN  IF ForeignKeyOk(contrib_id)
           THEN /\ delete_contributor(contrib_id)
                /\ req' = [req EXCEPT ![w] = Done(r, "ok")]
           ELSE /\ req' = [req EXCEPT ![w] = Done(r, "not_found")]
                /\ UNCHANGED <<contributors, transactions, withdrawal_requests>>
    /\ UNCHANGED <<users, trades, seq, today, edits, fanout>>

(***************************************************************************)
(* edit_trade and edit_transaction (POST).                                 *)
(***************************************************************************)
TradeIds == {t.id : t \in trades} \cup {seq.trades + 1}

EditTradeFormValid(f) ==
    /\ FloatOk(f.pnl) /\ FloatOk(f.charges)
    /\ strptime(f.trade_date) # NoDate

\* The figures with the commission charged on a loss as well.
EditTradeFiguresFlat(pnl, charges) ==
    LET net_pnl == RSub(pnl, charges)
        commission == RMul(CommissionRate, net_pnl)
    IN  [net_pnl |-> net_pnl, commission |-> commission,
         net_profit_after_commission |-> RSub(net_pnl, commission)]

\* net_pnl, commission and net_profit_after_commission as edit_trade
\* recomputes them.
EditTradeFigures(pnl, charges) ==
    LET net_pnl == RSub(pnl, charges)
        commission == IF RPos(net_pnl) THEN RMul(CommissionRate, net_pnl) ELSE Zero
    IN  [net_pnl |-> net_pnl, commission |-> commission,
         net_profit_after_commission |-> RSub(net_pnl, commission)]

edit_trade(w, trade_id, f) ==
    /\ Free(w)
    /\ edits < MaxEdits
    /\ edits' = edits + 1
    /\ LET r == [Begin("edit_trade") EXCEPT !.form = f, !.target = trade_id]
           fig == EditTradeFigures(f.pnl.val, f.charges.val)
       IN  IF ~\E t \in trades : t.id = trade_id
           THEN /\ req' = [req EXCEPT ![w] = Done(r, "not_found")]
                /\ UNCHANGED trades
           ELSE IF ~EditTradeFormValid(f)
           THEN /\ req' = [req EXCEPT ![w] = Done(r, "invalid")]
                /\ UNCHANGED trades
           ELSE /\ trades' =
                      {IF t.id = trade_id
                       THEN [t EXCEPT !.trade_date = f.trade_date, !.asset = f.asset,
                                      !.pnl = f.pnl.val, !.charges = f.charges.val,
                                      !.commission = fig.commission,
                                      !.net_pnl = fig.net_pnl,
                                      !.net_profit_after_commission =
                                          fig.net_profit_after_commission]
                       ELSE t : t \in trades}
                /\ req' = [req EXCEPT ![w] = Done(r, "ok")]
    /\ UNCHANGED <<users, contributors, transactions, withdrawal_requests, seq, today,
                   fanout>>

TransactionIds == {t.id : t \in transactions} \cup {seq.transactions + 1}

EditTransactionFormValid(f) ==
    /\ FloatOk(f.amount) /\ FloatOk(f.allocated_charges)
    /\ strptime(f.date) # NoDate
    /\ f.type \in {"deposit", "trade", "withdrawal"}

edit_transaction(w, txn_id, f) ==
    /\ Free(w)
    /\ edits < MaxEdits
    /\ edits' = edits + 1
    /\ LET r == [Begin("edit_transaction") EXCEPT !.form = f, !.target = txn_id]
       IN  IF ~\E t \in transactions : t.id = txn_id
           THEN /\ req' = [req EXCEPT ![w] = Done(r, "not_found")]
                /\ UNCHANGED transactions
           ELSE IF ~EditTransactionFormValid(f)
           THEN /\ req' = [req EXCEPT ![w] = Done(r, "invalid")]
                /\ UNCHANGED transactions
           ELSE /\ transactions' =
                      {IF t.id = txn_id
                       THEN [t EXCEPT !.date = f.date, !.type = f.type,
                                      !.amount = f.amount.val, !.asset = f.asset,
                                      !.allocated_charges = f.allocated_charges.val]
                       ELSE t : t \in transactions}
                /\ req' = [req EXCEPT ![w] = Done(r, "ok")]
    /\ UNCHANGED <<users, contributors, trades, withdrawal_requests, seq, today,
                   fanout>>

(***************************************************************************)
(* The store fails (sqlite3.OperationalError) at an INSERT of a fan-out:   *)
(* the exception is not caught, the request ends with what it has          *)
(* committed so far.                                                       *)
(***************************************************************************)
StoreError(w) ==
    /\ req[w].op \in {"record_trade", "withdraw_money"} /\ req[w].pc = "append"
    /\ req' = [req EXCEPT ![w] = Done(@, "error")]
    /\ UNCHANGED <<db, today, edits, fanout>>

\* The handler returns its response and the worker is free again.
Return(w) ==
    /\ req[w].pc = "done"
    /\ req' = [req EXCEPT ![w] = Idle]
    /\ UNCHANGED <<db, today, edits, fanout>>

(***************************************************************************)
(* delete_user (POST), by an admin.  The session is the signed cookie that *)
(* login wrote: user_id, username and role as they were at login.          *)
(***************************************************************************)
\* The user ids a URL may name: those in the table and one that is not.
UserIds == {u.id : u \in users} \cup {seq.users + 1}

\* The self-delete check, users = db.get_all_users() and the search for the
\* target among them.
DeleteUserStart(w, session, user_id) ==
    /\ Free(w)
    /\ session.role = "admin"
    /\ LET r == [Begin("delete_user") EXCEPT
                     !.form = [session |-> session], !.target = user_id]
       IN  req' = [req EXCEPT ![w] =
                      IF user_id = session.user_id THEN Done(r, "self")
                      ELSE IF \A u \in users : u.id # user_id
                      THEN Done(r, "not_found")
                      ELSE [r EXCEPT !.pc = "count"]]
    /\ UNCHANGED <<db, today, edits, fanout>>

\* if target["role"] == "admin" and db.count_admins() <= 1, with target the
\* row that get_all_users returned.
DeleteUserCount(w) ==
    /\ req[w].op = "delete_user" /\ req[w].pc = "count"
    /\ LET target == CHOOSE u \in req[w].pre.users : u.id = req[w].target
       IN  req' = [req EXCEPT ![w] =
                      IF target.role = "admin" /\ count_admins <= 1
                      THEN Done(@, "last_admin")
                      ELSE [@ EXCEPT !.pc = "delete"]]
    /\ UNCHANGED <<db, today, edits, fanout>>

\* db.delete_user(user_id)
DeleteUserDelete(w) ==
    /\ req[w].op = "delete_user" /\ req[w].pc = "delete"
    /\ delete_user(req[w].target)
    /\ req' = [req EXCEPT ![w] = Done(@, "ok")]
    /\ UNCHANGED <<contributors, transactions, trades, withdrawal_requests, seq,
                   today, edits, fanout>>

(***************************************************************************)
(* setup_database.py: the database type of a DATABASE_URL.  A URL is the   *)
(* sequence of its characters; os.environ.get gives None when it is unset. *)
(***************************************************************************)
Url(text) == [kind |-> "str", text |-> text]
MissingUrl == [kind |-> "none", text |-> <<>>]

PostgresqlScheme == <<"p", "o", "s", "t", "g", "r", "e", "s", "q", "l", ":", "/", "/">>
PostgresScheme == <<"p", "o", "s", "t", "g", "r", "e", "s", ":", "/", "/">>
MysqlScheme == <<"m", "y", "s", "q", "l", ":", "/", "/">>
SqliteScheme == <<"s", "q", "l", "i", "t", "e", ":", "/", "/", "/">>

\* What follows the scheme: nothing, or user, host and database.
UrlTails == {<<>>, <<"u", "@", "h", "/", "d", "b">>}

\* The schemes, and texts that differ from one in a character, in case, or
\* in where the scheme stands.
UrlHeads ==
    {<<>>, PostgresqlScheme, PostgresScheme, MysqlScheme, SqliteScheme,
     SubSeq(PostgresqlScheme, 1, Len(PostgresqlScheme) - 1),
     SubSeq(MysqlScheme, 1, Len(MysqlScheme) - 1),
     <<"P">> \o Tail(PostgresScheme),
     <<" ">> \o PostgresScheme,
     SqliteScheme \o MysqlScheme,
     SqliteScheme \o PostgresqlScheme}

DatabaseUrls == {MissingUrl} \cup {Url(h \o t) : h \in UrlHeads, t \in UrlTails}

\* prefix in s: the prefix found anywhere in s.
Contains(s, prefix) ==
    \E k \in 0..(Len(s) - Len(prefix)) : SubSeq(s, k + 1, k + Len(prefix)) = prefix

\* s.startswith(prefix)
startswith(s, prefix) ==
    Len(s) >= Len(prefix) /\ SubSeq(s, 1, Len(prefix)) = prefix

get_database_type(database_url) ==
    IF database_url.kind = "none" \/ database_url.text = <<>> THEN "sqlite"
    ELSE IF \/ startswith(database_url.text, PostgresqlScheme)
            \/ startswith(database_url.text, PostgresScheme)
    THEN "postgresql"
    ELSE IF startswith(database_url.text, MysqlScheme) THEN "mysql"
    ELSE "sqlite"

\* database_url = os.environ.get('DATABASE_URL');
\* db_type = get_database_type(database_url)
setup_database(w, database_url) ==
    /\ Free(w)
    /\ req' = [req EXCEPT ![w] =
                  Done([Begin("setup_database") EXCEPT !.form = database_url],
                       get_database_type(database_url))]
    /\ UNCHANGED <<db, today, edits, fanout>>

(***************************************************************************)
(* Specifications.                                                         *)
(***************************************************************************)
ServeContributors(w) ==
    \/ \E f \in ContributorForms : AddContributorStart(w, f)
    \/ AddContributorDeposit(w)
    \/ AddContributorUser(w)
    \/ \E f \in FundsForms : add_funds(w, f)
    \/ \E id \in ContributorIds : delete_contributor_route(w, id)

ServeAllocations(w) ==
    \/ \E f \in TradeForms : RecordTradeStart(w, f)
    \/ RecordTradeContributors(w)
    \/ RecordTradeBalance(w)
    \/ RecordTradeAppend(w)
    \/ \E f \in WithdrawForms : WithdrawStart(w, f)
    \/ WithdrawContributors(w)
    \/ WithdrawBalance(w)
    \/ WithdrawAppend(w)

ServeRequests(w) ==
    \/ \E u \in {"a", "b"}, f \in RequestForms : request_withdrawal(w, u, f)
    \/ \E id \in RequestIds, c \in AdminComments, d \in Days : ApproveStart(w, id, c, d)
    \/ ApproveLookup(w)
    \/ ApproveAppend(w)
    \/ \E id \in RequestIds, c \in AdminComments, d \in Days : reject_withdrawal(w, id, c, d)

ServeEdits(w) ==
    \/ \E id \in TradeIds, f \in EditTradeForms : edit_trade(w, id, f)
    \/ \E id \in TransactionIds, f \in EditTransactionForms : edit_transaction(w, id, f)

\* The fund from an empty database, one request after the other:
\* contributors and deposits, trade and withdrawal allocations.
Next ==
    \/ ServeContributors(1)
    \/ ServeAllocations(1)
    \/ Return(1)

Spec == Init /\ [][Next]_vars

\* The rows add_contributor leaves when posted for A and then for B.
FundUsers ==
    {[id |-> 1, username |-> "admin1", role |-> "admin"],
     [id |-> 2, username |-> "admin2", role |-> "admin"],
     [id |-> 3, username |-> "a", role |-> "user"],
     [id |-> 4, username |-> "b", role |-> "user"]}

FundContributors ==
    {[id |-> 1, name |-> "A", login_username |-> "a"],
     [id |-> 2, name |-> "B", login_username |-> "b"]}

FundLedger ==
    {NewDeposit(1, 1, "2024-01-09", R(6)), NewDeposit(2, 2, "2024-01-10", R(4))}

\* A fund of two contributors, as add_contributor posted for A and for B
\* leaves it.
InitFund ==
    /\ users = FundUsers
    /\ contributors = FundContributors
    /\ transactions = FundLedger
    /\ trades = {}
    /\ withdrawal_requests = {}
    /\ seq = [users |-> 4, contributors |-> 2, transactions |-> 2, trades |-> 0,
              withdrawal_requests |-> 0]
    /\ today = StartDay
    /\ edits = 0
    /\ fanout = <<>>
    /\ req = [w \in Workers |-> Idle]

\* Allocations and their corrections, one request after the other.
NextEdits ==
    \/ ServeAllocations(1)
    \/ ServeEdits(1)
    \/ Return(1)

SpecEdits == InitFund /\ [][NextEdits]_vars

\* The withdrawal requests of the contributors, one request after the other.
NextRequests ==
    \/ ServeRequests(1)
    \/ \E id \in ContributorIds : delete_contributor_route(1, id)
    \/ Return(1)

SpecRequests == InitFund /\ [][NextRequests]_vars

\* Two admins resolve the withdrawal requests at once.
NextApprovals ==
    \E w \in Workers :
        \/ \E f \in RequestForms : request_withdrawal(w, "a", f)
        \/ \E id \in RequestIds : ApproveStart(w, id, "", today)
        \/ ApproveLookup(w)
        \/ ApproveAppend(w)
        \/ \E id \in RequestIds : reject_withdrawal(w, id, "", today)
        \/ Return(w)

SpecApprovals == InitFund /\ [][NextApprovals]_vars

\* An admin withdrawal on one worker while another worker takes deposits.
NextInterference ==
    \E w \in Workers :
        \/ \E f \in WithdrawForms : WithdrawStart(w, f)
        \/ WithdrawContributors(w)
        \/ WithdrawBalance(w)
        \/ WithdrawAppend(w)
        \/ \E f \in FundsForms : add_funds(w, f)
        \/ Return(w)

SpecInterference == InitFund /\ [][NextInterference]_vars

\* Requests and admin withdrawals for more than is held, one request after
\* the other.
NextOverdraw ==
    \/ \E u \in {"a", "b"}, f \in OverdrawRequestForms : request_withdrawal(1, u, f)
    \/ \E id \in RequestIds : ApproveStart(1, id, "", today)
    \/ ApproveLookup(1)
    \/ ApproveAppend(1)
    \/ \E f \in WithdrawForms : WithdrawStart(1, f)
    \/ WithdrawContributors(1)
    \/ WithdrawBalance(1)
    \/ WithdrawAppend(1)
    \/ Return(1)

SpecOverdraw == InitFund /\ [][NextOverdraw]_vars

\* The sessions of the admins of the fund, each logged in.
AdminSessions ==
    {[user_id |-> u.id, username |-> u.username, role |-> u.role] :
        u \in {x \in FundUsers : x.role = "admin"}}

\* The admins delete users, two requests at once.
NextAdmins ==
    \E w \in Workers :
        \/ \E session \in AdminSessions, id \in UserIds :
              DeleteUserStart(w, session, id)
        \/ DeleteUserCount(w)
        \/ DeleteUserDelete(w)
        \/ Return(w)

SpecAdmins == InitFund /\ [][NextAdmins]_vars

\* Two workers serve requests at once; the store may fail.
NextConc ==
    \E w \in Workers :
        \/ ServeAllocations(w)
        \/ \E id \in ContributorIds : delete_contributor_route(w, id)
        \/ StoreError(w)
        \/ Return(w)

SpecConc == InitFund /\ [][NextConc]_vars

\* The ledger under deposits, purges, request approvals and corrections of
\* single entries, one request after the other.
NextFund ==
    \/ \E f \in FundsForms : add_funds(1, f)
    \/ \E id \in ContributorIds : delete_contributor_route(1, id)
    \/ \E u \in {"a", "b"}, f \in RequestForms : request_withdrawal(1, u, f)
    \/ \E id \in RequestIds : ApproveStart(1, id, "", today)
    \/ ApproveLookup(1)
    \/ ApproveAppend(1)
    \/ \E id \in TransactionIds, f \in EditTransactionForms : edit_transaction(1, id, f)
    \/ Return(1)

SpecFund == InitFund /\ [][NextFund]_vars

\* The five handlers that validate a posted form, served one request after
\* the other from an empty database, with the forms they accept and the forms
\* they reject.
NextForms ==
    \/ \E f \in ContributorForms \cup RejectedContributorForms :
           AddContributorStart(1, f)
    \/ AddContributorDeposit(1)
    \/ AddContributorUser(1)
    \/ \E f \in FundsForms \cup RejectedFundsForms : add_funds(1, f)
    \/ \E f \in TradeForms \cup RejectedTradeForms : RecordTradeStart(1, f)
    \/ RecordTradeContributors(1)
    \/ RecordTradeBalance(1)
    \/ RecordTradeAppend(1)
    \/ \E f \in WithdrawForms \cup RejectedWithdrawForms : WithdrawStart(1, f)
    \/ WithdrawContributors(1)
    \/ WithdrawBalance(1)
    \/ WithdrawAppend(1)
    \/ \E u \in {"a", "b"}, f \in RequestForms \cup RejectedRequestForms :
           request_withdrawal(1, u, f)
    \/ Return(1)

SpecForms == Init /\ [][NextForms]_vars

\* Allocations, withdrawal requests and their approval, and the purge of a
\* contributor, one request after the other.
NextPurge ==
    \/ ServeAllocations(1)
    \/ \E u \in {"a", "b"}, f \in RequestForms : request_withdrawal(1, u, f)
    \/ \E id \in RequestIds : ApproveStart(1, id, "", today)
    \/ ApproveLookup(1)
    \/ ApproveAppend(1)
    \/ \E id \in ContributorIds : delete_contributor_route(1, id)
    \/ Return(1)

SpecPurge == InitFund /\ [][NextPurge]_vars

\* Runs of the setup script with every DATABASE_URL, on an empty database.
NextSetup ==
    \E w \in Workers :
        \/ \E u \in DatabaseUrls : setup_database(w, u)
        \/ Return(w)

SpecSetup == Init /\ [][NextSetup]_vars

\* record_trade over the fund of two contributors and their further
\* deposits, with every kind of form: pnl given, pnl to be computed, both,
\* neither.
NextTrades ==
    \/ \E f \in FundsForms : add_funds(1, f)
    \/ \E f \in TradeForms \cup RejectedTradeForms \cup SuppliedPnlTradeForms :
           RecordTradeStart(1, f)
    \/ RecordTradeContributors(1)
    \/ RecordTradeBalance(1)
    \/ RecordTradeAppend(1)
    \/ Return(1)

SpecTrades == InitFund /\ [][NextTrades]_vars

\* Every handler that writes to the ledger, one request after the other,
\* each with one form it accepts and the rows that exist.
NextLedger ==
    \/ \E f \in {x \in ContributorForms : x.name = "B" /\ x.login_username = "b"} :
           AddContributorStart(1, f)
    \/ AddContributorDeposit(1)
    \/ AddContributorUser(1)
    \/ \E f \in {x \in FundsForms : FundsFormValid(x)} : add_funds(1, f)
    \/ \E f \in {x \in TradeForms : TradeFormValid(x) /\ x.pnl = Num(11)
                                      /\ x.trade_date = strftime(StartDay)} :
           RecordTradeStart(1, f)
    \/ RecordTradeContributors(1)
    \/ RecordTradeBalance(1)
    \/ RecordTradeAppend(1)
    \/ \E f \in {x \in WithdrawForms : x.amount = Num(3)
                                         /\ x.withdraw_date = strftime(StartDay)} :
           WithdrawStart(1, f)
    \/ WithdrawContributors(1)
    \/ WithdrawBalance(1)
    \/ WithdrawAppend(1)
    \/ \E f \in {x \in RequestForms : AmountFormValid(x.request_date, x.amount)} :
           request_withdrawal(1, "a", f)
    \/ \E r \in withdrawal_requests : ApproveStart(1, r.id, "", today)
    \/ ApproveLookup(1)
    \/ ApproveAppend(1)
    \/ \E r \in withdrawal_requests : reject_withdrawal(1, r.id, "", today)
    \/ \E t \in transactions,
          f \in {x \in EditTransactionForms : x.type = "withdrawal"} :
           edit_transaction(1, t.id, f)
    \/ \E c \in contributors : delete_contributor_route(1, c.id)
    \/ Return(1)

SpecLedger == InitFund /\ [][NextLedger]_vars

\* Two record_trade requests on two workers over the fund of InitFund: each
\* has validated its form and stored its trade, neither has read the
\* contributors yet.
InitRace ==
    \E f1, f2 \in {f \in TradeForms : TradeFormValid(f)} :
        LET before == [users |-> FundUsers, contributors |-> FundContributors,
                       transactions |-> FundLedger, trades |-> {},
                       withdrawal_requests |-> {}]
            between == [before EXCEPT !.trades = {NewTrade(1, f1)}]
            posted(f, pre) == [Idle EXCEPT !.op = "record_trade", !.form = f,
                                           !.pre = pre]
        IN  /\ users = FundUsers
            /\ contributors = FundContributors
            /\ transactions = FundLedger
            /\ trades = {NewTrade(1, f1), NewTrade(2, f2)}
            /\ withdrawal_requests = {}
            /\ seq = [users |-> 4, contributors |-> 2, transactions |-> 2,
                      trades |-> 2, withdrawal_requests |-> 0]
            /\ today = StartDay
            /\ edits = 0
            /\ fanout = <<{}, {}>>
            /\ req = [w \in Workers |->
                          IF w = 1 THEN Allocating(posted(f1, before), 1, f1)
                          ELSE Allocating(posted(f2, between), 2, f2)]

\* The two allocations, and the admin withdrawals that follow them, their
\* reads and appends interleaved in every order.
NextRace ==
    \E w \in Workers :
        \/ RecordTradeContributors(w)
        \/ RecordTradeBalance(w)
        \/ RecordTradeAppend(w)
        \/ \E f \in WithdrawForms : WithdrawStart(w, f)
        \/ WithdrawContributors(w)
        \/ WithdrawBalance(w)
        \/ WithdrawAppend(w)
        \/ Return(w)

SpecRace == InitRace /\ [][NextRace]_vars

\* The ledger rows the request on worker w has appended.
Appended(w) == {t \in transactions : t.id \in req[w].written}

\* The ledger as it was before any worker's request appended to it.
Unallocated == transactions \ UNION {Appended(w) : w \in Workers}

\* The request on worker w read every balance before any racing request
\* appended: what it read is the balance in the ledger of before.
ReadBeforeAppend(w) ==
    \A i \in 1..Len(req[w].eligible) :
        req[w].eligible[i] = EligibleIn(Unallocated, req[w].cids[i], req[w].date)

\* The rows the allocation of the request on worker w appends when it runs
\* alone over the ledger txns, numbered from base.
SerialRows(txns, w, base) ==
    LET r == req[w]
        live == {t \in txns : \E c \in contributors : c.id = t.contributor_id}
        total == TotalIn(live, r.date)
        part(c) == RDiv(EligibleIn(txns, c, r.date), total)
    IN  {[id |-> base + c.id, contributor_id |-> c.id, date |-> r.date,
          type |-> "trade",
          amount |-> RMul(part(c.id), r.net_profit_after_commission),
          asset |-> r.form.asset,
          allocated_charges |-> RMul(part(c.id), r.charges)] : c \in contributors}

\* Contributor, amount, allocated_charges and date of the rows.
Shares(rows) ==
    {<<t.contributor_id, t.amount, t.allocated_charges, t.date>> : t \in rows}

(***************************************************************************)
(* Properties of the ledger.                                               *)
(***************************************************************************)
\* C1: a successful record_trade, started with the contributors' eligible
\* balances as of the trade date summing to more than 0, has appended trade
\* entries whose amounts sum exactly to the trade's net_profit_after_commission
\* and whose allocated_charges sum exactly to its charges, and get_total_fund
\* of the trade date has risen by exactly net_profit_after_commission.
TradeAllocationConserves ==
    \A w \in Workers :
        (Served(w, "record_trade") /\ req[w].outcome = "ok") =>
            LET r == req[w]
                rows == transactions \ r.pre.transactions
                trade == CHOOSE t \in trades : t.id = r.trade_id
                eligible_before ==
                    [i \in 1..Len(r.cids) |->
                        EligibleIn(r.pre.transactions, r.cids[i], r.date)]
            IN  /\ RPos(r.total)
                /\ r.eligible = eligible_before
                /\ r.pre.transactions \subseteq transactions
                /\ \A t \in rows : t.type = "trade" /\ t.date = r.date
                /\ SumAmount(rows) = trade.net_profit_after_commission
                /\ SumCharges(rows) = trade.charges
                /\ get_total_fund(r.date) =
                       RAdd(TotalIn(r.pre.transactions, r.date),
                            trade.net_profit_after_commission)

\* A trade with charges has been allocated to two contributors in unequal,
\* non-zero, fractional shares.
TradeAllocatedToTwo ==
    \E w \in Workers :
        /\ Served(w, "record_trade") /\ req[w].outcome = "ok"
        /\ req[w].charges # Zero
        /\ \E x, y \in transactions \ req[w].pre.transactions :
              /\ x.contributor_id # y.contributor_id
              /\ x.amount # y.amount
              /\ x.amount[2] # 1 /\ y.amount[2] # 1

\* C2: a successful withdraw_money of W, served without another write in
\* between, has appended withdrawal entries whose amounts sum exactly to -W,
\* and get_total_fund of the withdrawal date has fallen by exactly W.
WithdrawalConserves ==
    \A w \in Workers :
        (Served(w, "withdraw_money") /\ req[w].outcome = "ok") =>
            LET r == req[w]
                rows == transactions \ r.pre.transactions
            IN  /\ RPos(r.total)
                /\ r.total = TotalIn(r.pre.transactions, r.date)
                /\ r.pre.transactions \subseteq transactions
                /\ \A t \in rows : t.type = "withdrawal" /\ t.date = r.date
                /\ SumAmount(rows) = RNeg(r.form.amount.val)
                /\ get_total_fund(r.date) =
                       RSub(TotalIn(r.pre.transactions, r.date), r.form.amount.val)

\* A withdrawal has been allocated to two contributors in unequal shares
\* while the ledger held an entry dated after the withdrawal date.
WithdrawalAllocatedToTwo ==
    \E w \in Workers :
        /\ Served(w, "withdraw_money") /\ req[w].outcome = "ok"
        /\ \E t \in req[w].pre.transactions : ~TextLeq(t.date, req[w].date)
        /\ \E x, y \in transactions \ req[w].pre.transactions :
              /\ x.contributor_id # y.contributor_id
              /\ x.amount # y.amount
              /\ x.amount # Zero /\ y.amount # Zero

\* C3: a record_trade or withdraw_money with a valid form, started with the
\* total eligible balance as of its date at or below 0, fails and appends no
\* ledger entry.
NoFundsAppendsNothing ==
    \A w \in Workers :
        LET r == req[w]
            valid == r.outcome # "invalid"
            total_before ==
                IF r.op = "record_trade"
                THEN SumAmount({t \in r.pre.transactions :
                        /\ TextLeq(t.date, r.form.trade_date)
                        /\ \E c \in r.pre.contributors : c.id = t.contributor_id})
                ELSE TotalIn(r.pre.transactions, r.form.withdraw_date)
        IN  ((Served(w, "record_trade") \/ Served(w, "withdraw_money"))
                /\ valid /\ RLe(total_before, Zero))
            => (r.outcome = "no_funds" /\ transactions = r.pre.transactions)

\* An allocation has failed for lack of funds on a ledger with negative
\* eligible balances.
FailedOnNegativeFund ==
    \E w \in Workers :
        /\ Served(w, "record_trade") \/ Served(w, "withdraw_money")
        /\ req[w].outcome = "no_funds"
        /\ req[w].pre.transactions # {}
        /\ RLt(TotalIn(req[w].pre.transactions, req[w].date), Zero)

\* C4: a record_trade that fails because the total eligible balance is at or
\* below 0 leaves no Trade record behind.
FailedTradeNotPersisted ==
    \A w \in Workers :
        (Served(w, "record_trade") /\ req[w].outcome = "no_funds")
            => trades = req[w].pre.trades

\* C5: an allocation that has ended, also by a store failure or by a
\* contributor deleted under it, has left in the ledger either all of the
\* entries it planned, one per contributor it read, or none of them.
FanoutAtomic ==
    \A w \in Workers :
        ((Served(w, "record_trade") \/ Served(w, "withdraw_money"))
            /\ req[w].cids # <<>>)
        => LET n == Cardinality({t \in transactions : t.id \in req[w].written})
           IN  n = 0 \/ n = Len(req[w].cids)

\* C6: a request that is approved or rejected keeps its status, its
\* resolution date and its admin comment in every later step.
ResolvedIsTerminal ==
    [][\A q \in withdrawal_requests :
          q.status \in {"approved", "rejected"} =>
              \A n \in withdrawal_requests' : n.id = q.id => n = q]_vars

\* C7: approve_withdrawal of a pending request of amount A has appended
\* exactly one entry, a withdrawal of -A dated the approval date on the
\* requesting contributor; the request is approved with that date and the
\* eligible balance of every other contributor, as of any date, is unchanged.
ApprovalAppendsOne ==
    \A w \in Workers :
        LET r == req[w]
            pending == {q \in r.pre.withdrawal_requests :
                            q.id = r.target /\ q.status = "pending"}
        IN  (Served(w, "approve_withdrawal") /\ pending # {}) =>
                LET q == CHOOSE x \in pending : TRUE
                    rows == transactions \ r.pre.transactions
                IN  /\ r.outcome = "ok"
                    /\ r.pre.transactions \subseteq transactions
                    /\ Cardinality(rows) = 1
                    /\ \A t \in rows :
                          /\ t.type = "withdrawal"
                          /\ t.amount = RNeg(q.amount)
                          /\ t.date = strftime(today)
                          /\ t.contributor_id = q.contributor_id
                    /\ \E n \in withdrawal_requests :
                          /\ n.id = q.id /\ n.status = "approved"
                          /\ n.approved_date = strftime(today)
                          /\ n.contributor_id = q.contributor_id
                          /\ n.amount = q.amount
                          /\ n.request_date = q.request_date
                    /\ \A c \in contributors, d \in DateStrings :
                          c.id # q.contributor_id =>
                              get_eligible_balance(c.id, d) =
                                  EligibleIn(r.pre.transactions, c.id, d)

\* A pending request has been approved on a day after its request date while
\* another contributor holds a balance.
ApprovedLater ==
    \E w \in Workers :
        /\ Served(w, "approve_withdrawal") /\ req[w].outcome = "ok"
        /\ \E q \in req[w].pre.withdrawal_requests :
              /\ q.id = req[w].target /\ q.status = "pending"
              /\ q.request_date # req[w].date
              /\ \E t \in transactions :
                    t.contributor_id # q.contributor_id /\ t.amount # Zero

\* C8: with no request in progress, the entries a trade's fan-out produced,
\* all still in the ledger, sum to the trade's current
\* net_profit_after_commission, also after edit_trade and edit_transaction.
FanoutMatchesTrade ==
    (\A w \in Workers : Free(w)) =>
        \A t \in trades :
            LET rows == {x \in transactions : x.id \in fanout[t.id]}
            IN  (fanout[t.id] # {} /\ Cardinality(rows) = Cardinality(fanout[t.id]))
                    => SumAmount(rows) = t.net_profit_after_commission

\* C9: every Trade record has net_pnl = pnl - charges, commission = 0.30 *
\* net_pnl when net_pnl > 0 and 0 otherwise, and net_profit_after_commission
\* = net_pnl - commission.
TradeFiguresConsistent ==
    \A t \in trades :
        /\ RAdd(t.net_pnl, t.charges) = t.pnl
        /\ t.commission[1] * 10 * t.net_pnl[2] =
              (IF t.net_pnl[1] > 0 THEN 3 * t.net_pnl[1] * t.commission[2] ELSE 0)
        /\ RAdd(t.net_profit_after_commission, t.commission) = t.net_pnl

\* edit_trade has turned a profitable trade into a losing one.
TradeEditedToLoss ==
    \E w \in Workers :
        /\ Served(w, "edit_trade") /\ req[w].outcome = "ok"
        /\ \E t \in trades, o \in req[w].pre.trades :
              /\ t.id = req[w].target /\ o.id = t.id
              /\ RPos(o.commission) /\ RLt(t.net_pnl, Zero)

\* C10: get_eligible_balance(c, d) is the sum of the amounts of c's entries
\* whose date is on or before the day d.
BalanceFollowsCalendar ==
    \A c \in contributors, d \in DateStrings :
        strptime(d) # NoDate =>
            get_eligible_balance(c.id, d) =
                SumAmount({t \in transactions :
                              t.contributor_id = c.id /\ CalendarLeq(t.date, d)})

\* C11: in every reachable state and for every date d, get_total_fund(d) is
\* the sum of get_eligible_balance(c, d) over the contributors that exist,
\* also after delete_contributor, edit_transaction and request approvals.
FundIsSumOfBalances ==
    \A d \in DateStrings :
        get_total_fund(d) = SumEligible({c.id : c \in contributors}, d)

\* A contributor has been purged from a ledger that holds the entry of an
\* approved request and a corrected entry of the contributor that stays.
PurgedAfterApprovalAndEdit ==
    \E w \in Workers :
        /\ Served(w, "delete_contributor") /\ req[w].outcome = "ok"
        /\ req[w].pre.transactions # transactions
        /\ edits > 0
        /\ \E q \in withdrawal_requests : q.status = "approved"
        /\ Cardinality(transactions) >= 2

\* C12: a successful trade allocation on date D has appended exactly one
\* trade entry per existing contributor c, of amount eligible[c] / total *
\* net_profit_after_commission and allocated_charges eligible[c] / total *
\* charges, eligible[c] being c's balance as of D before the allocation and
\* total their sum; a balance of 0 gives an entry of amount 0, a negative
\* balance a share of the sign opposite to net_profit_after_commission.
TradeSharesProportional ==
    \A w \in Workers :
        (Served(w, "record_trade") /\ req[w].outcome = "ok") =>
            LET r == req[w]
                rows == transactions \ r.pre.transactions
                trade == CHOOSE t \in trades : t.id = r.trade_id
                npac == trade.net_profit_after_commission
                eligible(c) == EligibleIn(r.pre.transactions, c, r.form.trade_date)
                total == TotalIn({t \in r.pre.transactions :
                                    \E c \in contributors : c.id = t.contributor_id},
                                 r.form.trade_date)
            IN  /\ Cardinality(rows) = Cardinality(contributors)
                /\ \A c \in contributors :
                      \E t \in rows :
                          /\ t.contributor_id = c.id
                          /\ t.type = "trade" /\ t.date = r.form.trade_date
                          /\ t.asset = r.form.asset
                          /\ t.amount[1] * eligible(c.id)[2] * total[1] * npac[2] =
                                 eligible(c.id)[1] * npac[1] * t.amount[2] * total[2]
                          /\ t.allocated_charges[1] * eligible(c.id)[2] * total[1]
                                    * trade.charges[2] =
                                 eligible(c.id)[1] * trade.charges[1]
                                    * t.allocated_charges[2] * total[2]
                          /\ eligible(c.id) = Zero => t.amount = Zero
                          /\ (RLt(eligible(c.id), Zero) /\ RPos(npac))
                                 => RLt(t.amount, Zero)
                          /\ (RLt(eligible(c.id), Zero) /\ RLt(npac, Zero))
                                 => RPos(t.amount)

\* A profitable trade has been allocated to a contributor with a negative
\* balance, who got a negative share.
NegativeBalanceShared ==
    \E w \in Workers :
        /\ Served(w, "record_trade") /\ req[w].outcome = "ok"
        /\ RPos(req[w].net_profit_after_commission)
        /\ \E t \in transactions \ req[w].pre.transactions :
              /\ RLt(EligibleIn(req[w].pre.transactions, t.contributor_id,
                                req[w].date), Zero)
              /\ RLt(t.amount, Zero)

\* C13: a successful withdraw_money of W on date D has appended exactly one
\* withdrawal entry per existing contributor c, dated D, with allocated_charges
\* 0 and amount -(eligible[c] / total_fund * W), eligible[c] being c's balance
\* as of D and total_fund get_total_fund(D), both before the withdrawal.
WithdrawalSharesProportional ==
    \A w \in Workers :
        (Served(w, "withdraw_money") /\ req[w].outcome = "ok") =>
            LET r == req[w]
                rows == transactions \ r.pre.transactions
                W == r.form.amount.val
                D == r.form.withdraw_date
                eligible(c) == EligibleIn(r.pre.transactions, c, D)
                total == TotalIn(r.pre.transactions, D)
            IN  /\ Cardinality(rows) = Cardinality(contributors)
                /\ \A c \in contributors :
                      \E t \in rows :
                          /\ t.contributor_id = c.id
                          /\ t.type = "withdrawal" /\ t.date = D
                          /\ t.asset = ""
                          /\ t.allocated_charges = Zero
                          /\ (-t.amount[1]) * eligible(c.id)[2] * total[1] * W[2] =
                                 eligible(c.id)[1] * W[1] * t.amount[2] * total[2]

\* A withdrawal has been allocated to two contributors, one of whom had a
\* balance of 0 as of the withdrawal date and got an entry of amount 0.
WithdrawalEntryForZeroBalance ==
    \E w \in Workers :
        /\ Served(w, "withdraw_money") /\ req[w].outcome = "ok"
        /\ \E x, y \in transactions \ req[w].pre.transactions :
              /\ x.contributor_id # y.contributor_id
              /\ x.amount = Zero /\ x.allocated_charges = Zero
              /\ RLt(y.amount, Zero)

ConflictLeavesStateUnchanged ==
    \A w \in Workers :
        (Served(w, "add_contributor") /\ req[w].outcome = "conflict") =>
            /\ contributors = req[w].pre.contributors
            /\ transactions = req[w].pre.transactions
            /\ users = req[w].pre.users

\* C16: every ledger entry has allocated_charges >= 0.
AllocatedChargesNonNegative ==
    \A t \in transactions : RLe(Zero, t.allocated_charges)

\* C17: while no contributor has been deleted, so that the ledger is the
\* work of deposits, trade allocations and admin withdrawals alone, every
\* deposit entry has amount > 0 and every withdrawal entry has amount <= 0.
SignConvention ==
    Cardinality(contributors) = seq.contributors =>
        \A t \in transactions :
            /\ t.type = "deposit" => RPos(t.amount)
            /\ t.type = "withdrawal" => RLe(t.amount, Zero)

ReferentialIntegrity ==
    /\ \A t \in transactions : \E c \in contributors : c.id = t.contributor_id
    /\ \A r \in withdrawal_requests :
           \E c \in contributors : c.id = r.contributor_id
    /\ \A w \in Workers :
           (Served(w, "delete_contributor") /\ req[w].outcome = "ok") =>
               LET c == req[w].target
                   pre == req[w].pre
               IN  /\ \E x \in pre.contributors : x.id = c
                   /\ contributors = {x \in pre.contributors : x.id # c}
                   /\ transactions =
                          {t \in pre.transactions : t.contributor_id # c}
                   /\ withdrawal_requests =
                          {r \in pre.withdrawal_requests : r.contributor_id # c}
                   /\ trades = pre.trades

\* A contributor holding ledger entries and a withdrawal request has been
\* deleted while another contributor held entries and a trade was on record.
PurgedWithEntriesAndRequest ==
    \E w \in Workers :
        /\ Served(w, "delete_contributor") /\ req[w].outcome = "ok"
        /\ \E t \in req[w].pre.transactions : t.contributor_id = req[w].target
        /\ \E r \in req[w].pre.withdrawal_requests :
              r.contributor_id = req[w].target
        /\ transactions # {} /\ trades # {}

\* C21: a step of add_funds, add_contributor, record_trade, withdraw_money,
\* request_withdrawal, approve_withdrawal or reject_withdrawal keeps every
\* ledger entry that was persisted before it, unmodified; only a step of
\* edit_transaction or delete_contributor changes or removes one.
LedgerAppendOnly ==
    [][(\A w \in Workers :
           req'[w] # req[w] =>
               req'[w].op \notin {"edit_transaction", "delete_contributor"})
       => transactions \subseteq transactions']_vars

\* An approval has appended to a ledger it left otherwise as it was, after an
\* edit_transaction had changed an entry and a delete_contributor had removed
\* a contributor's entries.
AppendedAfterEditAndPurge ==
    \E w \in Workers :
        /\ Served(w, "approve_withdrawal") /\ req[w].outcome = "ok"
        /\ req[w].pre.transactions \subseteq transactions
        /\ req[w].pre.transactions # transactions
        /\ edits > 0
        /\ FundLedger \cap transactions = {}
        /\ Cardinality(contributors) < Cardinality(FundContributors)

\* C22: an add_funds with the name of an existing contributor, a valid date
\* and an amount above 0 succeeds, and a successful add_funds has appended
\* exactly one entry, a deposit of that amount and date for the contributor of
\* that name, leaving every other entry, every other contributor's balance at
\* every date, the contributors, the trades and the requests as they were;
\* with a name no contributor has, nothing has changed.
DepositAppendsOne ==
    \A w \in Workers :
        Served(w, "add_funds") =>
            LET r == req[w]
                f == r.form
                rows == transactions \ r.pre.transactions
                named == {c \in r.pre.contributors : c.name = f.contributor}
                valid == /\ f.contributor # "" /\ strptime(f.deposit_date) # NoDate
                         /\ f.deposit.kind = "num" /\ RPos(f.deposit.val)
            IN  /\ (valid /\ named # {}) <=> r.outcome = "ok"
                /\ (valid /\ named = {}) <=> r.outcome = "not_found"
                /\ r.outcome # "ok" => Snapshot = r.pre
                /\ r.outcome = "ok" =>
                       /\ r.pre.transactions \subseteq transactions
                       /\ Cardinality(rows) = 1
                       /\ \A t \in rows :
                              /\ t.type = "deposit" /\ t.amount = f.deposit.val
                              /\ t.date = f.deposit_date
                              /\ t.allocated_charges = Zero
                              /\ \E c \in named : c.id = t.contributor_id
                              /\ \A c \in contributors, d \in DateStrings :
                                     c.id # t.contributor_id =>
                                         get_eligible_balance(c.id, d) =
                                             EligibleIn(r.pre.transactions, c.id, d)
                       /\ contributors = r.pre.contributors
                       /\ trades = r.pre.trades
                       /\ withdrawal_requests = r.pre.withdrawal_requests
                       /\ users = r.pre.users

\* A deposit has been added for one of two contributors after a trade had
\* been allocated.
DepositedAfterTrade ==
    \E w \in Workers :
        /\ Served(w, "add_funds") /\ req[w].outcome = "ok"
        /\ Cardinality(contributors) = 2
        /\ trades # {}
        /\ \E t \in req[w].pre.transactions : t.type = "trade"

\* C23: for a record_trade whose asset, date and numbers are well formed, the
\* pnl is the one the form gives; with none given and quantity, entry and
\* exit price all given it is (exit - entry) * quantity for side long and
\* (entry - exit) * quantity for side short; a side that is neither, or a pnl
\* that can be neither read nor computed, is rejected with nothing stored.
\* The trade stored has that pnl, net_pnl = pnl - charges, commission = 0.3 *
\* net_pnl when net_pnl > 0 and 0 otherwise, and the entries appended sum to
\* net_pnl - commission.
PnlGivenOrComputed ==
    \A w \in Workers :
        LET r == req[w]
            f == r.form
            num(x) == x.kind = "num"
            wellformed ==
                /\ f.asset # "" /\ strptime(f.trade_date) # NoDate
                /\ num(f.charges) /\ f.pnl.kind # "junk"
                /\ f.quantity.kind # "junk" /\ f.entry_price.kind # "junk"
                /\ f.exit_price.kind # "junk"
            execution == num(f.quantity) /\ num(f.entry_price) /\ num(f.exit_price)
            pnl == IF num(f.pnl) THEN f.pnl.val
                   ELSE IF f.side = "long"
                   THEN RMul(RSub(f.exit_price.val, f.entry_price.val), f.quantity.val)
                   ELSE RMul(RSub(f.entry_price.val, f.exit_price.val), f.quantity.val)
            net_pnl == RSub(pnl, f.charges.val)
            commission == IF RPos(net_pnl) THEN RMul(Rat(3, 10), net_pnl) ELSE Zero
        IN  (r.op = "record_trade" /\ wellformed) =>
                IF num(f.pnl) \/ (execution /\ f.side \in {"long", "short"})
                THEN /\ r.outcome # "invalid"
                     /\ \E t \in trades :
                            /\ t.id = r.trade_id
                            /\ t.pnl = pnl /\ t.net_pnl = net_pnl
                            /\ t.commission = commission
                            /\ t.net_profit_after_commission = RSub(net_pnl, commission)
                     /\ r.net_profit_after_commission = RSub(net_pnl, commission)
                     /\ (r.pc = "done" /\ r.outcome = "ok") =>
                            SumAmount(transactions \ r.pre.transactions) =
                                RSub(net_pnl, commission)
                ELSE /\ r.pc = "done" /\ r.outcome = "invalid"
                     /\ Snapshot = r.pre

\* A trade with no pnl given, side short and all execution fields has been
\* allocated to two contributors with the computed pnl (3 - 5) * 2 = -4.
ShortPnlComputed ==
    \E w \in Workers :
        /\ Served(w, "record_trade") /\ req[w].outcome = "ok"
        /\ req[w].form.pnl.kind = "blank" /\ req[w].form.side = "short"
        /\ \E t \in trades : t.id = req[w].trade_id /\ t.pnl = R(-4)
        /\ Cardinality(transactions \ req[w].pre.transactions) = 2

\* C24: get_database_type gives postgresql for a URL that begins with
\* postgresql:// or postgres://, mysql for one that begins with mysql://, and
\* sqlite for every other URL, the empty and the missing one included.
DatabaseTypeByPrefix ==
    \A w \in Workers :
        Served(w, "setup_database") =>
            LET u == req[w].form
                Begins(p) == /\ u.kind = "str"
                             /\ \E k \in 0..Len(u.text) :
                                    u.text = p \o SubSeq(u.text, k + 1, Len(u.text))
                postgres == Begins(PostgresqlScheme) \/ Begins(PostgresScheme)
                mysql == Begins(MysqlScheme)
            IN  /\ postgres => req[w].outcome = "postgresql"
                /\ mysql => req[w].outcome = "mysql"
                /\ (~postgres /\ ~mysql) => req[w].outcome = "sqlite"

\* A URL that holds mysql:// after sqlite:/// has been classified sqlite,
\* and a URL that begins with postgres:// postgresql.
SchemeInsideUrlIgnored ==
    \E v, w \in Workers :
        /\ Served(v, "setup_database") /\ Served(w, "setup_database")
        /\ Contains(req[v].form.text, MysqlScheme)
        /\ req[v].outcome = "sqlite"
        /\ startswith(req[w].form.text, PostgresScheme)
        /\ req[w].outcome = "postgresql"

\* C25: every approve_withdrawal of a request that exists, whatever its status
\* was as the approval started and whatever another approval of the same
\* request does at the same time, has appended one new entry, a withdrawal
\* of minus the request's amount on the requesting contributor; the entries
\* of two approvals are two entries.
ApprovalUnguarded ==
    \A w \in Workers :
        LET r == req[w]
            known == {q \in r.pre.withdrawal_requests : q.id = r.target}
        IN  (Served(w, "approve_withdrawal") /\ known # {}) =>
                LET q == CHOOSE x \in known : TRUE
                IN  /\ r.outcome = "ok"
                    /\ Cardinality(Appended(w)) = 1
                    /\ \A t \in Appended(w) :
                          /\ t \notin r.pre.transactions
                          /\ t.type = "withdrawal"
                          /\ t.amount = RNeg(q.amount)
                          /\ t.contributor_id = q.contributor_id
                    /\ \A v \in Workers \ {w} :
                          Served(v, "approve_withdrawal") =>
                              Appended(v) \cap Appended(w) = {}

\* Two approvals of the same request, pending as the first of them started
\* and neither started after the other had written its entry, have both
\* ended: the requester is debited twice.
ApprovedTwiceAtOnce ==
    \E w, v \in Workers :
        /\ w # v
        /\ Served(w, "approve_withdrawal") /\ Served(v, "approve_withdrawal")
        /\ req[w].target = req[v].target
        /\ req[w].pre.transactions = FundLedger
        /\ req[v].pre.transactions = FundLedger
        /\ \E q \in req[w].pre.withdrawal_requests :
              q.id = req[w].target /\ q.status = "pending"
        /\ \E q \in withdrawal_requests :
              /\ q.id = req[w].target
              /\ get_eligible_balance(q.contributor_id, strftime(today)) =
                     RSub(EligibleIn(FundLedger, q.contributor_id, strftime(today)),
                          RMul(R(2), q.amount))

\* C26: a successful withdraw_money of W has appended entries whose amounts
\* sum to exactly -W, also when a deposit of another request is committed
\* between its read of get_total_fund and its reads of get_eligible_balance.
WithdrawalConservesUnderInterference ==
    \A w \in Workers :
        (Served(w, "withdraw_money") /\ req[w].outcome = "ok") =>
            /\ Appended(w) \subseteq transactions
            /\ SumAmount(Appended(w)) = RNeg(req[w].form.amount.val)


\* C27: after a successful trade allocation or admin withdrawal on date D,
\* every contributor holds the same fraction of the fund as of D as before:
\* eligible_after[c] * total_before = eligible_before[c] * total_after.
FractionsUnchanged ==
    \A w \in Workers :
        ((Served(w, "record_trade") \/ Served(w, "withdraw_money"))
             /\ req[w].outcome = "ok") =>
            LET r == req[w]
                D == r.date
                total_before == TotalIn(r.pre.transactions, D)
                total_after == get_total_fund(D)
            IN  \A c \in contributors :
                    RMul(get_eligible_balance(c.id, D), total_before) =
                        RMul(EligibleIn(r.pre.transactions, c.id, D), total_after)

\* A losing trade and a withdrawal have each been shared between two
\* contributors who held unequal parts of the fund.
SharedBetweenUnequalHolders ==
    \E w \in Workers :
        /\ Served(w, "withdraw_money") /\ req[w].outcome = "ok"
        /\ \E t \in req[w].pre.transactions :
              t.type = "trade" /\ RLt(t.amount, Zero)
        /\ \E c, d \in contributors :
              /\ RLt(Zero, EligibleIn(req[w].pre.transactions, c.id, req[w].date))
              /\ RLt(EligibleIn(req[w].pre.transactions, c.id, req[w].date),
                     EligibleIn(req[w].pre.transactions, d.id, req[w].date))
              /\ \E x, y \in Appended(w) :
                    /\ x.contributor_id = c.id /\ y.contributor_id = d.id
                    /\ RLt(y.amount, x.amount)


\* C28: no withdrawal is bounded by what is held.  approve_withdrawal of an
\* existing request succeeds and lowers the requester's balance by the full
\* amount, also below zero; withdraw_money with a valid date and an amount W
\* above 0 succeeds whenever get_total_fund(D) is above 0 and lowers the
\* fund as of D by the full W, also below zero.
WithdrawalsUnbounded ==
    \A w \in Workers :
        LET r == req[w]
        IN  /\ Served(w, "approve_withdrawal") =>
                  \A q \in r.pre.withdrawal_requests :
                      q.id = r.target =>
                          /\ r.outcome = "ok"
                          /\ get_eligible_balance(q.contributor_id, r.date) =
                                 RSub(EligibleIn(r.pre.transactions,
                                                 q.contributor_id, r.date),
                                      q.amount)
            /\ (/\ Served(w, "withdraw_money")
                /\ strptime(r.form.withdraw_date) # NoDate
                /\ FloatOk(r.form.amount) /\ RPos(r.form.amount.val)
                /\ RPos(TotalIn(r.pre.transactions, r.form.withdraw_date))) =>
                  /\ r.outcome = "ok"
                  /\ get_total_fund(r.form.withdraw_date) =
                         RSub(TotalIn(r.pre.transactions, r.form.withdraw_date),
                              r.form.amount.val)

\* After deposits only, a request for more than the requester held has been
\* approved and an admin withdrawal of more than the fund has been served:
\* a contributor's balance and the total fund are below zero.
FundOverdrawn ==
    \E w \in Workers :
        /\ Served(w, "withdraw_money") /\ req[w].outcome = "ok"
        /\ RLt(req[w].total, req[w].amount)
        /\ RLt(get_total_fund(req[w].date), Zero)
        /\ \E q \in withdrawal_requests, t \in req[w].pre.transactions :
              /\ q.status = "approved"
              /\ t.type = "withdrawal" /\ t.contributor_id = q.contributor_id
              /\ t.amount = RNeg(q.amount)
              /\ RLt(EligibleIn(FundLedger, q.contributor_id, req[w].date), q.amount)
              /\ RLt(EligibleIn(req[w].pre.transactions, q.contributor_id,
                                req[w].date), Zero)


\* C29: a step that ends a successful request_withdrawal adds exactly one
\* request, in status pending, and a step of reject_withdrawal leaves the
\* named request rejected with the date and the admin comment of the call;
\* both leave the ledger, and so every contributor's eligible balance as of
\* every date, as it was.  No step takes a request that is approved or
\* rejected back to pending.
RequestsLeaveLedger ==
    [][/\ \A w \in Workers :
             LET r == req'[w]
                 ends(op) == req[w] # r /\ r.op = op /\ r.pc = "done"
                                 /\ r.outcome = "ok"
                 same == /\ transactions' = transactions
                         /\ \A c \in contributors, d \in DateStrings :
                               EligibleIn(transactions', c.id, d) =
                                   get_eligible_balance(c.id, d)
             IN  /\ ends("request_withdrawal") =>
                       /\ same
                       /\ withdrawal_requests \subseteq withdrawal_requests'
                       /\ Cardinality(withdrawal_requests' \ withdrawal_requests) = 1
                       /\ \A n \in withdrawal_requests' \ withdrawal_requests :
                             /\ n.status = "pending"
                             /\ \A q \in withdrawal_requests : q.id # n.id
                 /\ ends("reject_withdrawal") =>
                       /\ same
                       /\ \A q \in withdrawal_requests :
                             q.id = r.target =>
                                 \E n \in withdrawal_requests' :
                                     /\ n.id = q.id /\ n.status = "rejected"
                                     /\ n.approved_date = r.date
                                     /\ n.admin_comment = r.admin_comment
                                     /\ n.amount = q.amount
                                     /\ n.contributor_id = q.contributor_id
       /\ \A q \in withdrawal_requests, n \in withdrawal_requests' :
             (n.id = q.id /\ q.status # "pending") => n.status # "pending"]_vars

\* A pending request has been rejected with a comment on a day after its
\* request date, and the ledger holds the deposits only.
RejectedWithComment ==
    \E w \in Workers :
        /\ Served(w, "reject_withdrawal")
        /\ transactions = FundLedger
        /\ \E q \in req[w].pre.withdrawal_requests, n \in withdrawal_requests :
              /\ q.id = req[w].target /\ q.status = "pending"
              /\ n.id = q.id /\ n.status = "rejected"
              /\ n.admin_comment = "ok"
              /\ n.approved_date = strftime(today)
              /\ n.approved_date # n.request_date


\* C30: whatever delete_user requests the logged-in admins have issued and
\* however they interleaved, a user with role admin remains, and no
\* delete_user has removed the account of the admin who issued it.
AdminRemains ==
    /\ \E u \in users : u.role = "admin"
    /\ \A w \in Workers :
          (Served(w, "delete_user") /\ req[w].outcome = "ok") =>
              req[w].target # req[w].form.session.user_id

=============================================================================
